---- MODULE Spec2Model ----
(***************************************************************************)
(* Model of the course classification scripts of nau-course-scraping:      *)
(*   ai_analysis_broad.py  (normalize_text, max_fuzzy_score, main)         *)
(*   ethics_filter.py / ethics_analysis.py  (EthicsMatcher, main)          *)
(*   ai_analysis.py  (tiered matcher exercised by tests/test_ai_analysis)  *)
(* and of the scraper, scrape.py  (get_course_links, main).                 *)
(* Text is a TLA+ string; a character is a string of length 1.             *)
(***************************************************************************)
EXTENDS Integers, Sequences, FiniteSets, TLC

VARIABLES
    script,            \* which program runs: "normalize_text", "ai_analysis_broad", ...
    pc,                \* position inside the running program
    text,              \* normalize_text: the argument of the first call
    norm1,             \* normalize_text(text)
    norm2,             \* normalize_text(normalize_text(text))
    df,                \* the data frame read from --input-courses (sequence of rows)
    args,              \* parsed command line: fuzzy_threshold, disable_fuzzy
    ratio,             \* fuzz.partial_ratio scores met so far (text -> 0..100)
    text_norm_series,  \* main: normalized title + " " + description, per row
    reasons,           \* main: reason string per row
    matched,           \* main: rule match per row
    fuzzy_match,       \* main: fuzzy match per row
    flags,             \* the flag column added to df
    subset,            \* the rows written to --output
    raw,               \* ai_analysis: the per-term view, every row with its flags
    unique,            \* ai_analysis: the unique-course view
    csv,               \* the file at --input-courses
    out_file,          \* the file at --output
    stderr,            \* the message the run printed to sys.stderr ("" when none)
    thefuzz,           \* whether `from thefuzz import fuzz` finds the library
    compiled,          \* the compiled BROAD_PATTERNS list that evaluations share
    phrase_list,       \* the normalized fuzzy phrase list that evaluations share
    ethics_matcher,    \* the EthicsMatcher instance that evaluations share
    workers,           \* concurrent evaluation: each worker's locals
    results,           \* concurrent evaluation: record index -> stored outcome
    retries,           \* get_course_links: its retries argument
    attempt,           \* get_course_links: the loop variable
    loads,             \* get_course_links: driver.get calls made so far
    page,              \* get_course_links: what the browser shows after the last load
    returned,          \* get_course_links: the list it returned
    OVERWRITE,         \* scrape: "--overwrite" in sys.argv
    courses_csv,       \* scrape: the file CSV_PATH (rows keyed by url)
    existing,          \* scrape.main: url -> row
    driver,            \* scrape.main: "none", "open" or "quit"
    term_i,            \* scrape.main: index of the term in TERM_CODES
    prefix_i,          \* scrape.main: index of the prefix in PREFIXES
    links,             \* scrape.main: the links of the current prefix
    link_i,            \* scrape.main: index of the current link
    scraped,           \* scrape.main: the urls scrape_course was called with
    failed,            \* scrape.main: the urls reported by "[WARN] Failed"
    empty_prefixes     \* scrape: the rows appended to EMPTY_PREFIXES_CSV

vars == << script, pc, text, norm1, norm2, df, args, ratio, text_norm_series,
           reasons, matched, fuzzy_match, flags, subset, raw, unique, csv, out_file,
           stderr, thefuzz, compiled, phrase_list, ethics_matcher, workers, results,
           retries, attempt, loads, page, returned,
           OVERWRITE, courses_csv, existing, driver, term_i, prefix_i, links, link_i,
           scraped, failed, empty_prefixes >>

\* the shared matchers and the evaluations in flight
sharing == << compiled, phrase_list, ethics_matcher, workers, results >>

\* the state of get_course_links
linking == << retries, attempt, loads, page, returned >>

\* the state of scrape.main
scraping == << OVERWRITE, courses_csv, existing, driver, term_i, prefix_i, links, link_i,
               scraped, failed, empty_prefixes >>

\* the state of the programs other than the one an action belongs to
others == << thefuzz, sharing, linking, scraping >>

\* get_course_links has not been called
NoLinks ==
    /\ retries = 0
    /\ attempt = 0
    /\ loads = 0
    /\ page = << >>
    /\ returned = << >>

\* scrape.main has not started
NoScrape ==
    /\ OVERWRITE = FALSE
    /\ courses_csv = << >>
    /\ existing = << >>
    /\ driver = "none"
    /\ term_i = 0
    /\ prefix_i = 0
    /\ links = << >>
    /\ link_i = 0
    /\ scraped = {}
    /\ failed = {}
    /\ empty_prefixes = << >>

\* no evaluation shares matchers
NoSharing ==
    /\ compiled = << >>
    /\ phrase_list = << >>
    /\ ethics_matcher = << >>
    /\ workers = << >>
    /\ results = << >>

\* the programs other than the running one have not started
NoOthers == NoSharing /\ NoLinks /\ NoScrape

-----------------------------------------------------------------------------
(* Characters and strings                                                  *)

Range(s) == { s[i] : i \in 1..Len(s) }

Char(s, i) == SubSeq(s, i, i)

Digits == << "0", "1", "2", "3", "4", "5", "6", "7", "8", "9" >>

UpperAZ == << "A", "B", "C", "D", "E", "F", "G", "H", "I", "J", "K", "L", "M",
              "N", "O", "P", "Q", "R", "S", "T", "U", "V", "W", "X", "Y", "Z" >>

LowerAZ == << "a", "b", "c", "d", "e", "f", "g", "h", "i", "j", "k", "l", "m",
              "n", "o", "p", "q", "r", "s", "t", "u", "v", "w", "x", "y", "z" >>

\* Code-point order of the characters the model uses (Python compares str by
\* code point): space & ( ) , - . / 0-9 : = ? A-Z _ a-z
CodePoints == << " ", "&", "(", ")", ",", "-", ".", "/" >> \o Digits
              \o << ":", "=", "?" >> \o UpperAZ
              \o << "_" >> \o LowerAZ \o << "É", "é" >>

Ord(c) == CHOOSE i \in 1..Len(CodePoints) : CodePoints[i] = c

\* str.lower() on one character
UpperChars == Range(UpperAZ)

LowerChar(c) ==
    IF c \in UpperChars
    THEN LowerAZ[CHOOSE i \in 1..Len(UpperAZ) : UpperAZ[i] = c]
    ELSE IF c = "É" THEN "é" ELSE c

\* the strings of ss put end to end
RECURSIVE Concat(_)
Concat(ss) ==
    IF Len(ss) = 0 THEN ""
    ELSE IF Len(ss) = 1 THEN ss[1]
    ELSE LET m == Len(ss) \div 2
         IN  Concat(SubSeq(ss, 1, m)) \o Concat(SubSeq(ss, m + 1, Len(ss)))

\* str.lower()
lower(s) == Concat([i \in 1..Len(s) |-> LowerChar(Char(s, i))])

\* the character class [a-z0-9] of NON_ALNUM_RE
AlnumChars == Range(LowerAZ) \cup Range(Digits)

IsAlnum(c) == c \in AlnumChars

\* str.split() separators
IsSpace(c) == c = " "

\* NON_ALNUM_RE.sub(" ", s): every maximal run of characters outside [a-z0-9]
\* becomes one space (the first character of a run gives the space, the rest nothing)
NonAlnumSub(s) ==
    Concat([i \in 1..Len(s) |->
              IF IsAlnum(Char(s, i)) THEN Char(s, i)
              ELSE IF i > 1 /\ ~IsAlnum(Char(s, i - 1)) THEN ""
              ELSE " "])

\* s.split(): the maximal runs of non-space characters, in order
split(s) ==
    LET starts == { i \in 1..Len(s) :
                      ~IsSpace(Char(s, i)) /\ (i = 1 \/ IsSpace(Char(s, i - 1))) }
        start(k) == CHOOSE i \in starts : Cardinality({ j \in starts : j < i }) = k - 1
        end(i) == CHOOSE j \in i..Len(s) :
                      /\ \A x \in i..j : ~IsSpace(Char(s, x))
                      /\ (j = Len(s) \/ IsSpace(Char(s, j + 1)))
    IN  [k \in 1..Cardinality(starts) |-> SubSeq(s, start(k), end(start(k)))]

\* sep.join(words)
join(sep, words) ==
    IF words = << >> THEN ""
    ELSE Concat([k \in 1..(2 * Len(words) - 1) |->
                   IF k % 2 = 1 THEN words[(k + 1) \div 2] ELSE sep])

\* A plausible slip: the trailing " ".join(cleaned.split()) is left out.
normalize_text_nosplit(t) == NonAlnumSub(lower(t))

normalize_text(t) ==
    LET lowered == lower(t)
        cleaned == NonAlnumSub(lowered)
    IN  join(" ", split(cleaned))

-----------------------------------------------------------------------------
(* Regular expressions.  Every pattern of the scripts is \b, a finite set   *)
(* of literal alternatives (the optional suffixes and the class [- ]        *)
(* expanded), \b.  A compiled pattern is its label and that set.            *)

\* \w of a str pattern: letters (any script), digits, underscore
WordChars == Range(LowerAZ) \cup Range(UpperAZ) \cup Range(Digits) \cup { "_", "É", "é" }

IsWordChar(c) == c \in WordChars

\* \b holds at offset p (between s[p] and s[p+1]) of s
AtWordBoundary(s, p) ==
    (p > 0 /\ IsWordChar(Char(s, p))) # (p < Len(s) /\ IsWordChar(Char(s, p + 1)))

\* the offsets of s at which \b holds
Boundaries(s) == { p \in 0..Len(s) : AtWordBoundary(s, p) }

\* \b(alt1|alt2|...)\b matches somewhere in subject, whose \b offsets are bounds
SearchIn(alts, subject, bounds) ==
    \E alt \in alts :
        \E p \in bounds :
            /\ (p + Len(alt)) \in bounds
            /\ SubSeq(subject, p + 1, p + Len(alt)) = alt

\* rx.search(s) for \b(alt1|alt2|...)\b; ignorecase is re.IGNORECASE
Search(alts, s, ignorecase) ==
    SearchIn(alts, IF ignorecase THEN lower(s) ELSE s, Boundaries(s))

\* any(rx.search(s) for rx in patterns), the subject prepared once
SearchAny(patterns, s, ignorecase) ==
    \E subject \in { IF ignorecase THEN lower(s) ELSE s } :
        \E bounds \in { Boundaries(s) } :
            \E i \in 1..Len(patterns) : SearchIn(patterns[i], subject, bounds)

Rx(label, alts) == [label |-> label, alts |-> alts]

Plural(w) == { w, w \o "s" }

BROAD_PATTERNS == <<
    Rx("artificial_intelligence", { "artificial intelligence" }),
    Rx("ai", { "ai" }),
    Rx("machine_learning", { "machine learning" }),
    Rx("deep_learning", { "deep learning" }),
    Rx("generative_ai", { "generative ai" }),
    Rx("llm", Plural("large language model")),
    Rx("llm", { "llm" }),
    Rx("gpt", { "gpt" }),
    Rx("chatgpt", { "chatgpt" }),
    Rx("neural_network", Plural("neural network")),
    Rx("reinforcement_learning", { "reinforcement learning" }),
    Rx("nlp", { "natural language processing" }),
    Rx("nlp", { "nlp" }),
    Rx("computer_vision", { "computer vision" }),
    Rx("machine_vision", { "machine vision" }),
    Rx("image_processing", { "image processing" }),
    Rx("pattern_recognition", { "pattern recognition" }),
    Rx("data_mining", { "data mining" }),
    Rx("information_retrieval", { "information retrieval" }),
    Rx("expert_systems", Plural("expert system")),
    Rx("knowledge_representation", { "knowledge representation" }),
    Rx("intelligent_systems", Plural("intelligent system")),
    Rx("intelligent_agents", Plural("intelligent agent")),
    Rx("autonomous_systems", Plural("autonomous system")),
    Rx("autonomous", { "autonomous" }),
    Rx("robotics", Plural("robotic")),
    Rx("computational_intelligence", { "computational intelligence" }),
    Rx("speech_recognition", { "speech recognition" }),
    Rx("recommendation_systems", Plural("recommendation system")),
    Rx("recommender_systems", Plural("recommender system")),
    Rx("decision_support", { "decision support" }),
    Rx("intelligent_control", { "intelligent control" }),
    Rx("data_science", { "data science" }) >>

BROAD_FUZZY_PHRASES == <<
    "artificial intelligence", "machine learning", "deep learning",
    "generative ai", "large language model", "neural network",
    "reinforcement learning", "natural language processing", "computer vision",
    "pattern recognition", "data mining", "information retrieval",
    "expert systems", "knowledge representation", "intelligent systems",
    "intelligent agent", "autonomous systems", "computational intelligence",
    "speech recognition", "recommendation systems", "recommender systems",
    "decision support", "intelligent control", "data science" >>

-----------------------------------------------------------------------------
(* Lists, sorting, joining                                                  *)

\* a < b for Python str (lexicographic by code point)
StrLess(a, b) ==
    LET n == IF Len(a) < Len(b) THEN Len(a) ELSE Len(b)
        differ == { i \in 1..n : Char(a, i) # Char(b, i) }
    IN  IF differ = {} THEN Len(a) < Len(b)
        ELSE LET i == CHOOSE x \in differ : \A y \in differ : x <= y
             IN  Ord(Char(a, i)) < Ord(Char(b, i))

\* sorted(S) for a set of str
RECURSIVE SortedStrs(_)
SortedStrs(S) ==
    IF S = {} THEN << >>
    ELSE LET m == CHOOSE x \in S : \A y \in S : y = x \/ StrLess(x, y)
         IN  << m >> \o SortedStrs(S \ { m })

Map(f(_), s) == [i \in 1..Len(s) |-> f(s[i])]

-----------------------------------------------------------------------------
(* Data frames                                                              *)

\* A cell pandas read as missing (an empty cell, "NaN", "NA", ...)
NaN == "NaN"

\* Series.fillna("")
fillna(v) == IF v = NaN THEN "" ELSE v

required_cols == { "prefix", "number", "title", "description" }

Key(row) == << row.prefix, row.number >>

\* (prefix, number) of a is below that of b in sort_values(["prefix", "number"])
KeyLess(a, b) ==
    \/ StrLess(a.prefix, b.prefix)
    \/ a.prefix = b.prefix /\ StrLess(a.number, b.number)

\* rows[mask]: the rows whose flag is set, in order
RECURSIVE Filter(_, _)
Filter(rows, mask) ==
    IF rows = << >> THEN << >>
    ELSE (IF Head(mask) THEN << Head(rows) >> ELSE << >>)
         \o Filter(Tail(rows), Tail(mask))

\* A plausible slip: subset= is left out, so only rows equal in every column
\* (term included) count as duplicates.
RECURSIVE drop_duplicates_allcols(_)
drop_duplicates_allcols(rows) ==
    IF rows = << >> THEN << >>
    ELSE LET front == SubSeq(rows, 1, Len(rows) - 1)
             last  == rows[Len(rows)]
         IN  IF \E i \in 1..Len(front) : front[i] = last
             THEN drop_duplicates_allcols(front)
             ELSE drop_duplicates_allcols(front) \o << last >>

\* drop_duplicates(subset=["prefix", "number"]): the first row of every key
RECURSIVE drop_duplicates(_)
drop_duplicates(rows) ==
    IF rows = << >> THEN << >>
    ELSE LET front == SubSeq(rows, 1, Len(rows) - 1)
             last  == rows[Len(rows)]
         IN  IF \E i \in 1..Len(front) : Key(front[i]) = Key(last)
             THEN drop_duplicates(front)
             ELSE drop_duplicates(front) \o << last >>

\* insert row r into the sorted sequence s, after the rows not above it
RECURSIVE Insert(_, _)
Insert(s, r) ==
    IF s = << >> THEN << r >>
    ELSE IF KeyLess(r, Head(s)) THEN << r >> \o s
    ELSE << Head(s) >> \o Insert(Tail(s), r)

\* sort_values(["prefix", "number"]): ascending, stable
RECURSIVE sort_values(_)
sort_values(rows) ==
    IF rows = << >> THEN << >>
    ELSE Insert(sort_values(SubSeq(rows, 1, Len(rows) - 1)), rows[Len(rows)])

\* A plausible slip: duplicates are dropped before the flag is applied.
SubsetDedupFirst(rows, mask) ==
    LET firsts == { i \in 1..Len(rows) : \A j \in 1..(i - 1) : Key(rows[j]) # Key(rows[i]) }
    IN  sort_values(Filter(rows, [i \in 1..Len(rows) |-> mask[i] /\ i \in firsts]))

\* df[df[flag]].drop_duplicates(subset=[...]).sort_values([...])
Subset(rows, mask) == sort_values(drop_duplicates(Filter(rows, mask)))

-----------------------------------------------------------------------------
(* ai_analysis_broad: rule and fuzzy matching                               *)

\* hits = [label for label, rx in compiled if rx.search(text_norm)]
Hits(text_norm) ==
    CHOOSE hits \in
        { [i \in 1..Len(found) |-> found[i].label] :
            found \in { SelectSeq(BROAD_PATTERNS,
                                  LAMBDA rx : SearchIn(rx.alts, text_norm, bounds)) :
                          bounds \in { Boundaries(text_norm) } } } : TRUE

\* A plausible slip: the labels are joined as hit, neither deduplicated nor sorted.
ReasonOfRaw(hits) == join(",", hits)

\* reason = ",".join(sorted(set(hits))) if hits else ""
ReasonOf(hits) == IF hits # << >> THEN join(",", SortedStrs(Range(hits))) ELSE ""

Contains(long, short) ==
    \E p \in 0..(Len(long) - Len(short)) : SubSeq(long, p + 1, p + Len(short)) = short

Max(S) == CHOOSE x \in S : \A y \in S : y <= x

\* fuzz.partial_ratio(s1, s2): 100 when the shorter string occurs verbatim in the
\* longer one; otherwise the library's score for s1, which is below 100 (table r)
partial_ratio(r, s1, s2) ==
    IF Contains(s1, s2) \/ Contains(s2, s1) THEN 100 ELSE r[s1]

\* fuzzy_phrases = [normalize_text(term) for term in BROAD_FUZZY_PHRASES]
fuzzy_phrases == Map(normalize_text, BROAD_FUZZY_PHRASES)

max_fuzzy_score(r, text_norm, phrases) ==
    IF text_norm = "" THEN 0
    ELSE Max({ partial_ratio(r, text_norm, phrases[i]) : i \in 1..Len(phrases) })

\* A plausible slip: the comparison is turned round.
MeetsThresholdReversed(score, threshold) == score <= threshold

\* max_fuzzy_score(text, fuzzy_phrases) >= args.fuzzy_threshold
MeetsThreshold(score, threshold) == score >= threshold

\* A plausible slip: the fuzzy result replaces the rule result.
CombineFlagFuzzyOnly(m, f) == f

\* m or f
CombineFlag(m, f) == m \/ f

-----------------------------------------------------------------------------
(* normalize_text driven over every short string                           *)

MaxLen == 4

NormAlphabet == { "A", "I", "i", ".", " ", "7", "é" }

RECURSIVE StringsUpTo(_)
StringsUpTo(n) ==
    IF n = 0 THEN { "" }
    ELSE LET shorter == StringsUpTo(n - 1)
         IN  shorter \cup { s \o c : s \in { x \in shorter : Len(x) = n - 1 },
                                     c \in NormAlphabet }

NoFrame ==
    /\ df = << >>
    /\ args = [fuzzy_threshold |-> 0, disable_fuzzy |-> TRUE]
    /\ ratio = << >>
    /\ text_norm_series = << >>
    /\ reasons = << >>
    /\ matched = << >>
    /\ fuzzy_match = << >>
    /\ flags = << >>
    /\ subset = << >>
    /\ raw = << >>
    /\ unique = << >>
    /\ csv = [exists |-> FALSE, columns |-> {}, rows |-> << >>]
    /\ out_file = [exists |-> FALSE, rows |-> << >>]
    /\ stderr = ""
    /\ thefuzz = TRUE

InitNorm ==
    /\ NoOthers
    /\ script = "normalize_text"
    /\ pc = "call"
    /\ text \in StringsUpTo(MaxLen)
    /\ norm1 = ""
    /\ norm2 = ""
    /\ NoFrame

frame == << df, args, ratio, text_norm_series, reasons, matched, fuzzy_match,
            flags, subset, raw, unique, csv, out_file, stderr >>

\* normalize_text(text)
Normalize ==
    /\ script = "normalize_text"
    /\ pc = "call"
    /\ norm1' = normalize_text(text)
    /\ pc' = "once"
    /\ UNCHANGED << others, script, text, norm2, frame >>

\* normalize_text applied to its own result
Renormalize ==
    /\ script = "normalize_text"
    /\ pc = "once"
    /\ norm2' = normalize_text(norm1)
    /\ pc' = "twice"
    /\ UNCHANGED << others, script, text, norm1, frame >>

NextNorm == Normalize \/ Renormalize

SpecNorm == InitNorm /\ [][NextNorm]_vars

-----------------------------------------------------------------------------
(* EthicsMatcher (ethics_filter.py and ethics_analysis.py)                  *)

EthicSuffixes(stem) == { stem, stem \o "s", stem \o "al" }

TITLE_PATTERNS == <<
    EthicSuffixes("ethic"),
    EthicSuffixes("bioethic"),
    EthicSuffixes("cyberethic") >>

DESCRIPTION_PATTERNS == <<
    { "professional ethics" },
    { "ethical decision-making", "ethical decision making" },
    Plural("ethical issue"),
    { "ethics and" },
    { "ethics of" },
    { "ethics in" },
    { "research ethics" },
    Plural("ethical standard"),
    { "ethical responsibilitie", "ethical responsibilities" },
    { "health care ethics" },
    { "environmental ethics" },
    EthicSuffixes("bioethic"),
    EthicSuffixes("cyberethic"),
    { "code of ethics" } >>

\* Python's None
None == "None"

\* ethics_filter.EthicsMatcher.build(include_description)
FilterBuild(include_description) ==
    [title_patterns |-> TITLE_PATTERNS,
     description_patterns |-> IF include_description THEN DESCRIPTION_PATTERNS ELSE << >>]

\* ethics_analysis.EthicsMatcher.build()
AnalysisBuild ==
    [title_patterns |-> TITLE_PATTERNS, description_patterns |-> DESCRIPTION_PATTERNS]

\* title or "": None and "" give ""; any other value (a float NaN too) is kept
OrEmpty(v) == IF v = None \/ v = "" THEN "" ELSE v

\* any(p.search(s) for p in patterns), the patterns compiled with re.IGNORECASE
AnySearch(patterns, s) == SearchAny(patterns, s, TRUE)

\* p.search(v) raises TypeError when v is not a str
SearchRaises(patterns, v) == patterns # << >> /\ v = NaN

\* whether ethics_filter's is_match raises instead of returning
FilterIsMatchRaises(m, title, description) ==
    LET title_text == OrEmpty(title)
        description_text == OrEmpty(description)
    IN  \/ SearchRaises(m.title_patterns, title_text)
        \/ /\ ~AnySearch(m.title_patterns, title_text)
           /\ SearchRaises(m.description_patterns, description_text)

\* ethics_filter.EthicsMatcher.is_match, when it returns
FilterIsMatch(m, title, description) ==
    LET title_text == OrEmpty(title)
        description_text == OrEmpty(description)
    IN  IF AnySearch(m.title_patterns, title_text) THEN TRUE
        ELSE IF m.description_patterns = << >> THEN FALSE
        ELSE AnySearch(m.description_patterns, description_text)

\* whether ethics_analysis's is_match raises instead of returning
is_match_raises(m, title, description) ==
    LET title_text == OrEmpty(title)
        description_text == OrEmpty(description)
    IN  \/ SearchRaises(m.title_patterns, title_text)
        \/ /\ ~AnySearch(m.title_patterns, title_text)
           /\ SearchRaises(m.description_patterns, description_text)

\* A plausible slip: the title patterns are run over title and description.
is_match_combined(m, title, description) ==
    LET both == OrEmpty(title) \o " " \o OrEmpty(description)
    IN  AnySearch(m.title_patterns, both) \/ AnySearch(m.description_patterns, both)

\* ethics_analysis.EthicsMatcher.is_match, when it returns
is_match(m, title, description) ==
    LET title_text == OrEmpty(title)
        description_text == OrEmpty(description)
    IN  IF AnySearch(m.title_patterns, title_text) THEN TRUE
        ELSE AnySearch(m.description_patterns, description_text)

-----------------------------------------------------------------------------
(* The scripts' main(): input checks shared by both scripts                 *)

MaxRows == 3

Row(term, prefix, number, title, description) ==
    [term |-> term, prefix |-> prefix, number |-> number,
     title |-> title, description |-> description]

AllColumns == required_cols \cup { "term" }

\* every sequence of at most n rows drawn from catalog
RECURSIVE Batches(_, _)
Batches(catalog, n) ==
    IF n = 0 THEN { << >> }
    ELSE LET shorter == Batches(catalog, n - 1)
         IN  shorter \cup { Append(b, r) : b \in { x \in shorter : Len(x) = n - 1 },
                                           r \in catalog }

\* the files --input-courses can name: none, one without a required column,
\* one with every column and up to MaxRows rows of the catalog
Inputs(catalog) ==
    { [exists |-> FALSE, columns |-> {}, rows |-> << >>] }
    \cup { [exists |-> TRUE, columns |-> AllColumns \ { c }, rows |-> << >>] :
             c \in required_cols }
    \cup { [exists |-> TRUE, columns |-> AllColumns, rows |-> b] :
             b \in Batches(catalog, MaxRows) }

InitMain ==
    /\ text = ""
    /\ norm1 = ""
    /\ norm2 = ""
    /\ df = << >>
    /\ ratio = << >>
    /\ text_norm_series = << >>
    /\ reasons = << >>
    /\ matched = << >>
    /\ fuzzy_match = << >>
    /\ flags = << >>
    /\ subset = << >>
    /\ raw = << >>
    /\ unique = << >>
    /\ out_file = [exists |-> FALSE, rows |-> << >>]
    /\ stderr = ""
    /\ NoOthers

pure == << text, norm1, norm2 >>

\* if not input_courses.exists(): ... raise SystemExit(1)
CheckInput ==
    /\ script \in { "ai_analysis_broad", "ethics_analysis", "ai_analysis" }
    /\ pc = "start"
    /\ pc' = IF csv.exists THEN "read" ELSE "exit1"
    /\ stderr' = IF csv.exists THEN stderr ELSE "Course CSV not found"
    /\ UNCHANGED << others, script, pure, df, args, ratio, text_norm_series, reasons,
                    matched, fuzzy_match, flags, subset, raw, unique, csv, out_file >>

\* df = pd.read_csv(input_courses); missing required columns: SystemExit(1)
ReadCsv ==
    /\ script \in { "ai_analysis_broad", "ethics_analysis", "ai_analysis" }
    /\ pc = "read"
    /\ df' = csv.rows
    /\ LET missing == { col \in required_cols : col \notin csv.columns }
       IN  /\ pc' = IF missing # {} THEN "exit1" ELSE "compile"
           /\ stderr' = IF missing # {} THEN "Missing required columns" ELSE stderr
    /\ UNCHANGED << others, script, pure, args, ratio, text_norm_series, reasons,
                    matched, fuzzy_match, flags, subset, raw, unique, csv, out_file >>

-----------------------------------------------------------------------------
(* ai_analysis_broad.main                                                   *)

Thresholds == { 0, 85, 100 }

\* scores fuzz.partial_ratio gives a text that contains no phrase verbatim
Scores == { 40, 90 }

CatalogBroad == {
    Row("Fall 2025", "PHIL", "100", "Ethics of AI", NaN),
    Row("Spring 2026", "PHIL", "100", "Ethics in Technology", NaN),
    Row("Fall 2025", "CS", "470", "Machine Learning",
        "Deep learning and LLM (large language models)."),
    Row("Fall 2025", "CS", "105L", NaN, NaN) }

CatalogEthics == {
    Row("Fall 2025", "PHIL", "100", "Introduction to Ethics",
        "Professional ethics and ethical decision-making in modern society."),
    Row("Fall 2025", "CS", "470", "Artificial Intelligence", "An ethical approach."),
    Row("Spring 2026", "CS", "470", "Software Engineering", "Covers the code of ethics."),
    Row("Spring 2026", "PHIL", "100", "Introduction to Ethics", NaN),
    Row("Fall 2025", "BIO", "205", "BIOETHICS", NaN),
    Row("Fall 2025", "CS", "105L", "Algebra", NaN) }

InitBroad ==
    /\ script = "ai_analysis_broad"
    /\ pc = "import"
    /\ thefuzz \in BOOLEAN
    /\ csv \in Inputs(CatalogBroad)
    /\ args \in [fuzzy_threshold : Thresholds, disable_fuzzy : BOOLEAN]
    /\ InitMain

\* ethics_analysis takes no fuzzy options
InitEthics ==
    /\ script = "ethics_analysis"
    /\ pc = "start"
    /\ thefuzz = TRUE
    /\ csv \in Inputs(CatalogEthics)
    /\ args = [fuzzy_threshold |-> 0, disable_fuzzy |-> TRUE]
    /\ InitMain

Init == InitBroad \/ InitEthics

\* A plausible slip: the guard only warns and the run goes on without the library.
ImportOutcomeDegraded(installed) == "start"

\* try: from thefuzz import fuzz / except ImportError: ... raise SystemExit(1)
ImportOutcome(installed) == IF installed THEN "start" ELSE "exit1"

\* the module-level import guard, run before main() whatever the options are
ImportGuard ==
    /\ script = "ai_analysis_broad"
    /\ pc = "import"
    /\ pc' = ImportOutcome(thefuzz)
    /\ stderr' = IF pc' = "exit1"
                 THEN "Missing dependency: thefuzz. Install with: pip install thefuzz[speedup]"
                 ELSE stderr
    /\ UNCHANGED << others, script, pure, df, args, ratio, text_norm_series, reasons,
                    matched, fuzzy_match, flags, subset, raw, unique, csv, out_file >>

\* titles + " " + descriptions, fillna("") on both, mapped through normalize_text
TextNorm(row) == normalize_text(fillna(row.title) \o " " \o fillna(row.description))

NormalizeSeries ==
    /\ script = "ai_analysis_broad"
    /\ pc = "compile"
    /\ text_norm_series' = Map(TextNorm, df)
    /\ pc' = "rules"
    /\ UNCHANGED << others, script, pure, stderr, df, args, ratio, reasons, matched, fuzzy_match,
                    flags, subset, raw, unique, csv, out_file >>

\* for text_norm in text_norm_series: hits, reason, matched
RuleMatch ==
    /\ script = "ai_analysis_broad"
    /\ pc = "rules"
    /\ LET hits == Map(Hits, text_norm_series)
       IN  /\ reasons' = Map(ReasonOf, hits)
           /\ matched' = [i \in 1..Len(hits) |-> hits[i] # << >>]
    /\ pc' = "fuzzy"
    /\ UNCHANGED << others, script, pure, stderr, df, args, ratio, text_norm_series, fuzzy_match,
                    flags, subset, raw, unique, csv, out_file >>

\* the texts partial_ratio is called on
Scored == { text_norm_series[i] : i \in 1..Len(text_norm_series) } \ { "" }

\* if args.disable_fuzzy: [False] * len(df)  else: the scores against the threshold
FuzzyMatch ==
    /\ script = "ai_analysis_broad"
    /\ pc = "fuzzy"
    /\ IF args.disable_fuzzy
       THEN /\ fuzzy_match' = [i \in 1..Len(df) |-> FALSE]
            /\ ratio' = ratio
       ELSE /\ ratio' \in [Scored -> Scores]
            /\ fuzzy_match' =
                 [i \in 1..Len(text_norm_series) |->
                    MeetsThreshold(
                        max_fuzzy_score(ratio', text_norm_series[i], fuzzy_phrases),
                        args.fuzzy_threshold)]
    /\ pc' = "flag"
    /\ UNCHANGED << others, script, pure, stderr, df, args, text_norm_series, reasons, matched,
                    flags, subset, raw, unique, csv, out_file >>

\* df["is_ai_candidate"] = [m or f ...]; df["ai_candidate_reason"] = reasons
SetFlags ==
    /\ script = "ai_analysis_broad"
    /\ pc = "flag"
    /\ flags' = [i \in 1..Len(matched) |-> CombineFlag(matched[i], fuzzy_match[i])]
    /\ pc' = "subset"
    /\ UNCHANGED << others, script, pure, stderr, df, args, ratio, text_norm_series, reasons,
                    matched, fuzzy_match, subset, raw, unique, csv, out_file >>

\* subset = df[flag].drop_duplicates(...).sort_values(...); subset.to_csv(output)
WriteSubset ==
    /\ script \in { "ai_analysis_broad", "ethics_analysis" }
    /\ pc = "subset"
    /\ subset' = Subset(df, flags)
    /\ out_file' = [exists |-> TRUE, rows |-> subset']
    /\ pc' = "done"
    /\ UNCHANGED << others, script, pure, stderr, df, args, ratio, text_norm_series, reasons,
                    matched, fuzzy_match, flags, raw, unique, csv >>

\* ethics_analysis.main: matcher.is_match(title, description) for every row;
\* a TypeError raised by is_match ends the run with a traceback
EthicsFlags ==
    /\ script = "ethics_analysis"
    /\ pc = "compile"
    /\ LET matcher == AnalysisBuild
       IN  IF \E i \in 1..Len(df) : is_match_raises(matcher, df[i].title, df[i].description)
           THEN /\ pc' = "error"
                /\ flags' = flags
                /\ stderr' = "TypeError: expected string or bytes-like object"
           ELSE /\ pc' = "subset"
                /\ flags' = [i \in 1..Len(df) |->
                               is_match(matcher, df[i].title, df[i].description)]
                /\ stderr' = stderr
    /\ UNCHANGED << others, script, pure, df, args, ratio, text_norm_series, reasons,
                    matched, fuzzy_match, subset, raw, unique, csv, out_file >>

Next ==
    \/ ImportGuard
    \/ CheckInput
    \/ ReadCsv
    \/ NormalizeSeries
    \/ RuleMatch
    \/ FuzzyMatch
    \/ SetFlags
    \/ EthicsFlags
    \/ WriteSubset

Spec == Init /\ [][Next]_vars

-----------------------------------------------------------------------------
(* ai_analysis: the tiered matcher that tests/test_ai_analysis.py drives,   *)
(* run in its rules-only mode.  The tiers hold the terms the design names.  *)

PRIMARY_PATTERNS == << { "artificial intelligence" }, { "machine learning" } >>

SECONDARY_PATTERNS == <<
    { "autonomous" }, { "data science" }, EthicSuffixes("ethic") >>

CONTEXT_PATTERNS == <<
    { "artificial intelligence" }, { "machine learning" }, { "ai" } >>

\* ai_analysis.matches_any(text_norm, patterns)
matches_any(text_norm, patterns) == SearchAny(patterns, text_norm, FALSE)

\* A plausible slip: a secondary term counts without any context term.
keyword_match_ungated(text_norm) ==
    \/ matches_any(text_norm, PRIMARY_PATTERNS)
    \/ matches_any(text_norm, SECONDARY_PATTERNS)

\* primary, or secondary together with context
keyword_match(text_norm) ==
    \/ matches_any(text_norm, PRIMARY_PATTERNS)
    \/ /\ matches_any(text_norm, SECONDARY_PATTERNS)
       /\ matches_any(text_norm, CONTEXT_PATTERNS)

CatalogAi == {
    Row("Fall 2025", "CS", "470", "Artificial Intelligence",
        "Study of artificial intelligence and intelligent systems."),
    Row("Spring 2026", "CS", "470", "Artificial Intelligence",
        "Study of artificial intelligence and intelligent systems."),
    Row("Fall 2025", "PHIL", "100", "Introduction to Ethics",
        "Professional ethics and ethical decision-making in modern society."),
    Row("Spring 2026", "PHIL", "100", "Ethics of AI", NaN),
    Row("Fall 2025", "PHIL", "105", "Ethics in Technology", NaN),
    Row("Fall 2025", "ME", "480", "Autonomous Vehicles", "Data science methods."),
    Row("Fall 2025", "CS", "105L", "AI Seminar", NaN) }

InitAi ==
    /\ script = "ai_analysis"
    /\ pc = "start"
    /\ thefuzz = TRUE
    /\ csv \in Inputs(CatalogAi)
    /\ args = [fuzzy_threshold |-> 85, disable_fuzzy |-> TRUE]
    /\ InitMain

\* every row gets its normalized text, its rule match and its two flags
AiClassify ==
    /\ script = "ai_analysis"
    /\ pc = "compile"
    /\ text_norm_series' = Map(TextNorm, df)
    /\ matched' = Map(keyword_match, text_norm_series')
    /\ fuzzy_match' = [i \in 1..Len(df) |-> FALSE]
    /\ flags' = [i \in 1..Len(df) |-> CombineFlag(matched'[i], fuzzy_match'[i])]
    /\ raw' = [i \in 1..Len(df) |->
                 [row |-> df[i],
                  is_ai_related |-> flags'[i],
                  is_ethics_related |->
                      FilterIsMatch(FilterBuild(TRUE), fillna(df[i].title),
                                    fillna(df[i].description))]]
    /\ pc' = "views"
    /\ UNCHANGED << others, script, pure, stderr, df, args, ratio, reasons, subset, unique, csv, out_file >>

\* the unique-course view and the AI subset are cut from the per-term view
AiWriteViews ==
    /\ script = "ai_analysis"
    /\ pc = "views"
    /\ unique' = sort_values(drop_duplicates(df))
    /\ subset' = Subset(df, flags)
    /\ out_file' = [exists |-> TRUE, rows |-> subset']
    /\ pc' = "done"
    /\ UNCHANGED << others, script, pure, stderr, df, args, ratio, text_norm_series, reasons,
                    matched, fuzzy_match, flags, raw, csv >>

NextAi == CheckInput \/ ReadCsv \/ AiClassify \/ AiWriteViews

SpecAi == InitAi /\ [][NextAi]_vars

-----------------------------------------------------------------------------
(* Evaluations that share the compiled matchers: every record of a batch is *)
(* evaluated by the steps of ai_analysis_broad.main (lines 149-170) and of  *)
(* ethics_filter.EthicsMatcher.is_match, by workers that take the records   *)
(* in any order and whose steps interleave.                                 *)

MaxBatch == 3

Workers == { "w1", "w2" }

CatalogShared == {
    Row("Fall 2025", "PHIL", "100", "Ethics of AI", NaN),
    Row("Fall 2025", "MAT", "105L", "Algebra", NaN) }

\* hits = [label for label, rx in compiled if rx.search(text_norm)], over the
\* list the evaluation is handed
HitsWith(patterns, text_norm) ==
    CHOOSE hits \in
        { [i \in 1..Len(found) |-> found[i].label] :
            found \in { SelectSeq(patterns,
                                  LAMBDA rx : SearchIn(rx.alts, text_norm, bounds)) :
                          bounds \in { Boundaries(text_norm) } } } : TRUE

\* A plausible slip: the patterns are built as a generator expression, which
\* the first record's loop uses up.
IteratedGenerator(list) == << >>

\* what a list (or a tuple of a frozen dataclass) is after a for loop or any()
\* has run over it: lists are built at lines 146-147 and only read afterwards
Iterated(list) == list

Idle == [pc |-> "idle", rec |-> 0, text_norm |-> "", hits |-> << >>,
         fuzzy |-> FALSE, ethics |-> FALSE]

InitShared ==
    /\ script = "workers"
    /\ pc = "run"
    /\ text = ""
    /\ norm1 = ""
    /\ norm2 = ""
    /\ df \in Batches(CatalogShared, MaxBatch)
    /\ args = [fuzzy_threshold |-> 85, disable_fuzzy |-> FALSE]
    /\ ratio \in { [t \in { TextNorm(r) : r \in CatalogShared } |-> score] : score \in Scores }
    /\ text_norm_series = << >>
    /\ reasons = << >>
    /\ matched = << >>
    /\ fuzzy_match = << >>
    /\ flags = << >>
    /\ subset = << >>
    /\ raw = << >>
    /\ unique = << >>
    /\ csv = [exists |-> FALSE, columns |-> {}, rows |-> << >>]
    /\ out_file = [exists |-> FALSE, rows |-> << >>]
    /\ stderr = ""
    /\ thefuzz = TRUE
    /\ compiled = BROAD_PATTERNS
    /\ phrase_list = fuzzy_phrases
    /\ ethics_matcher = FilterBuild(TRUE)
    /\ workers = [w \in Workers |-> Idle]
    /\ results = << >>
    /\ NoLinks
    /\ NoScrape

\* a worker takes any record nobody has taken; titles + " " + descriptions,
\* normalized
Take(w) ==
    /\ workers[w].pc = "idle"
    /\ \E i \in 1..Len(df) :
           /\ i \notin DOMAIN results
           /\ \A v \in Workers : workers[v].rec # i
           /\ workers' = [workers EXCEPT ![w] =
                             [Idle EXCEPT !.pc = "rules", !.rec = i,
                                          !.text_norm = TextNorm(df[i])]]
    /\ UNCHANGED << script, pc, pure, frame, thefuzz, linking, scraping, compiled, phrase_list, ethics_matcher, results >>

\* hits = [label for label, rx in compiled if rx.search(text_norm)]
EvalRules(w) ==
    /\ workers[w].pc = "rules"
    /\ workers' = [workers EXCEPT ![w].hits = HitsWith(compiled, workers[w].text_norm),
                                  ![w].pc = "fuzzy"]
    /\ compiled' = Iterated(compiled)
    /\ UNCHANGED << script, pc, pure, frame, thefuzz, linking, scraping, phrase_list, ethics_matcher, results >>

\* max_fuzzy_score(text, fuzzy_phrases) >= args.fuzzy_threshold
EvalFuzzy(w) ==
    /\ workers[w].pc = "fuzzy"
    /\ workers' = [workers EXCEPT
                      ![w].fuzzy = /\ ~args.disable_fuzzy
                                   /\ MeetsThreshold(
                                          max_fuzzy_score(ratio, workers[w].text_norm, phrase_list),
                                          args.fuzzy_threshold),
                      ![w].pc = "ethics"]
    /\ phrase_list' = Iterated(phrase_list)
    /\ UNCHANGED << script, pc, pure, frame, thefuzz, linking, scraping, compiled, ethics_matcher, results >>

\* matcher.is_match(title, description) of ethics_filter
EvalEthics(w) ==
    /\ workers[w].pc = "ethics"
    /\ LET row == df[workers[w].rec]
       IN  workers' = [workers EXCEPT
                         ![w].ethics = FilterIsMatch(ethics_matcher, fillna(row.title),
                                                     fillna(row.description)),
                         ![w].pc = "store"]
    /\ ethics_matcher' = [title_patterns |-> Iterated(ethics_matcher.title_patterns),
                   description_patterns |-> Iterated(ethics_matcher.description_patterns)]
    /\ UNCHANGED << script, pc, pure, frame, thefuzz, linking, scraping, compiled, phrase_list, results >>

\* the record's flag (m or f) and reason are stored under the record
Store(w) ==
    /\ workers[w].pc = "store"
    /\ results' = [i \in DOMAIN results \cup { workers[w].rec } |->
                      IF i = workers[w].rec
                      THEN [flag |-> CombineFlag(workers[w].hits # << >>, workers[w].fuzzy),
                            reason |-> ReasonOf(workers[w].hits),
                            ethics |-> workers[w].ethics]
                      ELSE results[i]]
    /\ workers' = [workers EXCEPT ![w] = Idle]
    /\ UNCHANGED << script, pc, pure, frame, thefuzz, linking, scraping, compiled, phrase_list, ethics_matcher >>

NextShared ==
    \/ \E w \in Workers : Take(w)
    \/ \E w \in Workers : EvalRules(w)
    \/ \E w \in Workers : EvalFuzzy(w)
    \/ \E w \in Workers : EvalEthics(w)
    \/ \E w \in Workers : Store(w)

SpecShared == InitShared /\ [][NextShared]_vars

-----------------------------------------------------------------------------
(* scrape.py: get_course_links                                              *)

BASE == "https://catalog.nau.edu/Courses"

MaxRetries == 2

MaxAnchors == 2

\* no classifier runs
NoClassifier ==
    /\ text = ""
    /\ norm1 = ""
    /\ norm2 = ""
    /\ NoFrame

\* what a.get_attribute("href") gives for a result anchor
Hrefs == { None, "",
           "course?courseId=1",
           BASE \o "/course?courseId=1",
           BASE \o "/course?courseId=2" }

\* what the browser can show once driver.get has returned: whether the
\* "No courses found" heading is there, and the result anchors' hrefs
Pages == [no_courses : BOOLEAN, hrefs : Batches(Hrefs, MaxAnchors)]

\* str.startswith
startswith(s, prefix) == Len(s) >= Len(prefix) /\ SubSeq(s, 1, Len(prefix)) = prefix

\* wait.until(EC.any_of(...)) raises TimeoutException: neither a result anchor
\* nor the "No courses found" heading shows up within wait_s
TimesOut(p) == p.hrefs = << >> /\ ~p.no_courses

\* if href.startswith("course?"): href = f"{BASE}/{href}"
Absolute(href) == IF startswith(href, "course?") THEN BASE \o "/" \o href ELSE href

\* links = set(); for a in ...: if href: links.add(...); return sorted(links)
CourseLinks(p) ==
    SortedStrs({ Absolute(p.hrefs[i]) :
                   i \in { k \in 1..Len(p.hrefs) : p.hrefs[k] \notin { None, "" } } })

\* A plausible slip: the comparison is turned round.
ShouldRetryReversed(a, r) == a > r

\* if attempt < retries: continue
ShouldRetry(a, r) == a < r

InitLinks ==
    /\ script = "get_course_links"
    /\ pc = "get"
    /\ NoClassifier
    /\ NoSharing
    /\ NoScrape
    /\ retries \in -1..MaxRetries
    /\ attempt = 0
    /\ loads = 0
    /\ page = << >>
    /\ returned = << >>

\* for attempt in range(retries + 1): driver.get(results_url(prefix, term_code));
\* driver.get may raise (the browser is gone, the page load times out), and
\* nothing in get_course_links catches that
LoadPage ==
    /\ script = "get_course_links"
    /\ pc = "get"
    /\ attempt <= retries
    /\ loads' = loads + 1
    /\ \/ page' \in Pages /\ pc' = "wait"
       \/ page' = page /\ pc' = "raised"
    /\ UNCHANGED << script, pure, frame, thefuzz, sharing, scraping,
                    retries, attempt, returned >>

\* the for loop has no attempt left: return [] (line 337)
LoopExhausted ==
    /\ script = "get_course_links"
    /\ pc = "get"
    /\ attempt > retries
    /\ returned' = << >>
    /\ pc' = "returned"
    /\ UNCHANGED << script, pure, frame, thefuzz, sharing, scraping,
                    retries, attempt, loads, page >>

\* try: wait.until(...) except TimeoutException: continue, or warn and return []
WaitUntil ==
    /\ script = "get_course_links"
    /\ pc = "wait"
    /\ IF TimesOut(page)
       THEN IF ShouldRetry(attempt, retries)
            THEN /\ attempt' = attempt + 1
                 /\ pc' = "get"
                 /\ returned' = returned
            ELSE /\ attempt' = attempt
                 /\ pc' = "returned"
                 /\ returned' = << >>
       ELSE /\ attempt' = attempt
            /\ pc' = "found"
            /\ returned' = returned
    /\ UNCHANGED << script, pure, frame, thefuzz, sharing, scraping,
                    retries, loads, page >>

\* the "No courses found" heading: return []; otherwise return sorted(links)
Collect ==
    /\ script = "get_course_links"
    /\ pc = "found"
    /\ returned' = IF page.no_courses THEN << >> ELSE CourseLinks(page)
    /\ pc' = "returned"
    /\ UNCHANGED << script, pure, frame, thefuzz, sharing, scraping,
                    retries, attempt, loads, page >>

NextLinks == LoadPage \/ LoopExhausted \/ WaitUntil \/ Collect

SpecLinks == InitLinks /\ [][NextLinks]_vars

\* the call runs on: the interpreter takes the next step whenever there is one
FairLinks == SpecLinks /\ WF_vars(NextLinks)

-----------------------------------------------------------------------------
(* scrape.py: main                                                          *)

\* TERM_CODES.items(), in the dict's order
TERM_CODES == << [label |-> "Fall 2025", code |-> 1257],
                 [label |-> "Spring 2026", code |-> 1261] >>

\* the head of PREFIXES
PREFIXES == << "ACC", "ACM" >>

\* the course pages the catalog can link to
CourseUrls == { BASE \o "/course?courseId=1", BASE \o "/course?courseId=2" }

\* a row of CSV_PATH, or asdict(course): the url, the term and the page's fields
CourseRow(url, term, title) == [url |-> url, term |-> term, title |-> title]

\* an empty dict
EmptyDict == [u \in {} |-> u]

\* the rows a CSV written by an earlier run holds for the urls of S
StoredRows(S) == [u \in S |-> CourseRow(u, "Fall 2025", "Stored Title")]

\* CSV_PATH before the run: no file, or a file an earlier run wrote
CsvFiles ==
    { [exists |-> FALSE, rows |-> EmptyDict] }
    \cup { [exists |-> TRUE, rows |-> StoredRows(S)] : S \in SUBSET CourseUrls }

\* what get_course_links can return: a sorted list without duplicates
LinkLists == { SortedStrs(S) : S \in SUBSET CourseUrls }

\* A plausible slip: the sense of the --overwrite flag is inverted.
ShouldSkipInverted(link, rows, overwrite) == link \in DOMAIN rows /\ overwrite

\* if link in existing and not OVERWRITE: continue
ShouldSkip(link, rows, overwrite) == link \in DOMAIN rows /\ ~overwrite

\* existing[link] = row
DictSet(rows, link, row) ==
    [u \in DOMAIN rows \cup { link } |-> IF u = link THEN row ELSE rows[u]]

InitScrape ==
    /\ script = "scrape"
    /\ pc = "load"
    /\ NoClassifier
    /\ NoSharing
    /\ NoLinks
    /\ OVERWRITE \in BOOLEAN
    /\ courses_csv \in CsvFiles
    /\ existing = EmptyDict
    /\ driver = "none"
    /\ term_i = 1
    /\ prefix_i = 1
    /\ links = << >>
    /\ link_i = 0
    /\ scraped = {}
    /\ failed = {}
    /\ empty_prefixes = << >>

\* existing = load_existing_courses(): FileNotFoundError gives {}
LoadExisting ==
    /\ script = "scrape"
    /\ pc = "load"
    /\ existing' = IF courses_csv.exists THEN courses_csv.rows ELSE EmptyDict
    /\ pc' = "make_driver"
    /\ UNCHANGED << script, pure, frame, thefuzz, sharing, linking,
                    OVERWRITE, courses_csv, driver, term_i, prefix_i, links, link_i,
                    scraped, failed, empty_prefixes >>

\* driver = make_driver(), before the try: when webdriver.Chrome raises, the
\* run ends without a driver
MakeDriver ==
    /\ script = "scrape"
    /\ pc = "make_driver"
    /\ \/ driver' = "open" /\ pc' = "fetch"
       \/ driver' = driver /\ pc' = "crashed"
    /\ UNCHANGED << script, pure, frame, thefuzz, sharing, linking,
                    OVERWRITE, courses_csv, existing, term_i, prefix_i, links, link_i,
                    scraped, failed, empty_prefixes >>

\* the loops' next position after the prefix at (t, p): the next prefix, the
\* next term, or the end of the try block
AfterPrefix(t, p) ==
    IF p < Len(PREFIXES) THEN [pc |-> "fetch", term_i |-> t, prefix_i |-> p + 1]
    ELSE IF t < Len(TERM_CODES) THEN [pc |-> "fetch", term_i |-> t + 1, prefix_i |-> 1]
    ELSE [pc |-> "finally", term_i |-> t, prefix_i |-> p]

\* links = get_course_links(driver, prefix, term_code); if not links:
\* log_empty_prefix(...); continue.  An exception of get_course_links is not
\* caught in main.
FetchLinks ==
    /\ script = "scrape"
    /\ pc = "fetch"
    /\ \/ \E ls \in LinkLists :
              /\ links' = ls
              /\ IF ls = << >>
                 THEN /\ empty_prefixes' =
                           Append(empty_prefixes,
                                  [term |-> TERM_CODES[term_i].label,
                                   term_code |-> TERM_CODES[term_i].code,
                                   prefix |-> PREFIXES[prefix_i],
                                   error |-> "empty"])
                      /\ LET to == AfterPrefix(term_i, prefix_i)
                         IN  /\ pc' = to.pc
                             /\ term_i' = to.term_i
                             /\ prefix_i' = to.prefix_i
                      /\ link_i' = link_i
                 ELSE /\ link_i' = 1
                      /\ pc' = "link"
                      /\ UNCHANGED << empty_prefixes, term_i, prefix_i >>
       \/ /\ pc' = "finally_raise"
          /\ UNCHANGED << links, link_i, empty_prefixes, term_i, prefix_i >>
    /\ UNCHANGED << script, pure, frame, thefuzz, sharing, linking,
                    OVERWRITE, courses_csv, existing, driver, scraped, failed >>

\* for link in links: the position after the link at index i
AfterLink(i) == IF i < Len(links) THEN "link" ELSE "write"

\* if link in existing and not OVERWRITE: continue
SkipLink ==
    /\ script = "scrape"
    /\ pc = "link"
    /\ ShouldSkip(links[link_i], existing, OVERWRITE)
    /\ pc' = AfterLink(link_i)
    /\ link_i' = link_i + 1
    /\ UNCHANGED << script, pure, frame, thefuzz, sharing, linking,
                    OVERWRITE, courses_csv, existing, driver, term_i, prefix_i, links,
                    scraped, failed, empty_prefixes >>

\* try: course = scrape_course(driver, link, term_label);
\*      existing[link] = asdict(course)
\* except Exception as e: print(f"[WARN] Failed {link}: {e}")
\* A KeyboardInterrupt is no Exception and leaves the try block of main.
ScrapeCourse ==
    /\ script = "scrape"
    /\ pc = "link"
    /\ ~ShouldSkip(links[link_i], existing, OVERWRITE)
    /\ scraped' = scraped \cup { links[link_i] }
    /\ \/ /\ existing' = DictSet(existing, links[link_i],
                                  CourseRow(links[link_i], TERM_CODES[term_i].label,
                                            "Scraped Title"))
          /\ failed' = failed
          /\ pc' = AfterLink(link_i)
          /\ link_i' = link_i + 1
       \/ /\ existing' = existing
          /\ failed' = failed \cup { links[link_i] }
          /\ pc' = AfterLink(link_i)
          /\ link_i' = link_i + 1
       \/ /\ existing' = existing
          /\ failed' = failed
          /\ pc' = "finally_raise"
          /\ link_i' = link_i
    /\ UNCHANGED << script, pure, frame, thefuzz, sharing, linking,
                    OVERWRITE, courses_csv, driver, term_i, prefix_i, links,
                    empty_prefixes >>

\* write_csv(existing): nothing when existing is empty, else the whole file is
\* rewritten from existing; step += 1
WriteCsv ==
    /\ script = "scrape"
    /\ pc = "write"
    /\ courses_csv' = IF existing = EmptyDict THEN courses_csv
                      ELSE [exists |-> TRUE, rows |-> existing]
    /\ LET to == AfterPrefix(term_i, prefix_i)
       IN  /\ pc' = to.pc
           /\ term_i' = to.term_i
           /\ prefix_i' = to.prefix_i
    /\ UNCHANGED << script, pure, frame, thefuzz, sharing, linking,
                    OVERWRITE, existing, driver, links, link_i,
                    scraped, failed, empty_prefixes >>

\* finally: driver.quit(); then "Finished." is printed, or the exception goes on
Finally ==
    /\ script = "scrape"
    /\ pc \in { "finally", "finally_raise" }
    /\ driver' = "quit"
    /\ pc' = IF pc = "finally" THEN "finished" ELSE "crashed"
    /\ UNCHANGED << script, pure, frame, thefuzz, sharing, linking,
                    OVERWRITE, courses_csv, existing, term_i, prefix_i, links, link_i,
                    scraped, failed, empty_prefixes >>

NextScrape ==
    \/ LoadExisting
    \/ MakeDriver
    \/ FetchLinks
    \/ SkipLink
    \/ ScrapeCourse
    \/ WriteCsv
    \/ Finally

SpecScrape == InitScrape /\ [][NextScrape]_vars

-----------------------------------------------------------------------------
(* Properties                                                               *)

Rows == 1..Len(df)

Keys(rows) == { Key(rows[i]) : i \in 1..Len(rows) }

AiDone == script = "ai_analysis" /\ pc \in { "views", "done" }

C2_DottedAbbreviation ==
    (script = "normalize_text" /\ pc # "call" /\ text = "A.I.") => norm1 = "ai"

\* the output alphabet of normalize_text, and its spacing
WellFormed(s) ==
    /\ \A i \in 1..Len(s) : IsAlnum(Char(s, i)) \/ Char(s, i) = " "
    /\ s # "" => Char(s, 1) # " " /\ Char(s, Len(s)) # " "
    /\ \A i \in 1..(Len(s) - 1) : ~(Char(s, i) = " " /\ Char(s, i + 1) = " ")

\* C3: normalize_text is idempotent, and its output holds only lower-case ASCII
\* letters, digits and single spaces, with no space at either end.
C3_NormalizeIdempotent ==
    script = "normalize_text" =>
        /\ pc \in { "once", "twice" } => WellFormed(norm1)
        /\ pc = "twice" => norm2 = norm1

C3_Witness ==
    /\ script = "normalize_text"
    /\ pc = "twice"
    /\ text = " A.7"
    /\ norm1 = "a 7"
    /\ norm2 = "a 7"

\* C4: the per-term view holds exactly the input rows, one output row per input
\* row, and the unique-course view holds exactly one row per (prefix, number)
\* key of the input.
C4_ViewsRowCounts ==
    /\ AiDone => /\ Len(raw) = Len(df)
                 /\ \A i \in Rows : raw[i].row = df[i]
    /\ (script = "ai_analysis" /\ pc = "done") =>
           /\ Keys(unique) = Keys(df)
           /\ Len(unique) = Cardinality(Keys(df))

C4_Witness ==
    /\ script = "ai_analysis"
    /\ pc = "done"
    /\ Len(raw) = 3
    /\ Len(unique) = 2
    /\ \E i, j \in Rows : i # j /\ Key(df[i]) = Key(df[j]) /\ df[i].term # df[j].term

BroadAt(places) == script = "ai_analysis_broad" /\ pc \in places

\* max_fuzzy_score(text, fuzzy_phrases) of every row, as main computes it
RowScores ==
    CHOOSE scores \in { [i \in Rows |-> max_fuzzy_score(ratio, text_norm_series[i], phrases)] :
                          phrases \in { fuzzy_phrases } } : TRUE

\* C5: the flag of a record is rule_match or (fuzzy enabled and fuzzy_match); with
\* fuzzy disabled the flagged records are exactly the rule-matched ones, at
\* every threshold.
C5_FlagIsRuleOrFuzzy ==
    BroadAt({ "subset", "done" }) =>
        /\ Len(flags) = Len(df)
        /\ IF args.disable_fuzzy
           THEN flags = matched
           ELSE \A score \in { RowScores } :
                    \A i \in Rows :
                        flags[i] = (matched[i] \/ MeetsThreshold(score[i], args.fuzzy_threshold))

C5_Witness ==
    /\ BroadAt({ "done" })
    /\ ~args.disable_fuzzy
    /\ \E i \in Rows : ~matched[i] /\ fuzzy_match[i] /\ flags[i]
    /\ \E i \in Rows : matched[i] /\ ~fuzzy_match[i] /\ flags[i]
    /\ \E i \in Rows : ~matched[i] /\ ~fuzzy_match[i] /\ ~flags[i]

\* C6: for thresholds t1 <= t2, every record fuzzy-matched (or flagged) at t2 is
\* fuzzy-matched (or flagged) at t1, so the counts never grow with the threshold.
C6_ThresholdMonotone ==
    BroadAt({ "flag", "subset", "done" }) =>
        IF args.disable_fuzzy
        THEN \A i \in Rows : ~fuzzy_match[i]
        ELSE \A score \in { RowScores } :
             LET fuzzy(t) == { i \in Rows : MeetsThreshold(score[i], t) }
                 flagged(t) == { i \in Rows :
                                   CombineFlag(matched[i], MeetsThreshold(score[i], t)) }
             IN  /\ \A i \in Rows : fuzzy_match[i] = (i \in fuzzy(args.fuzzy_threshold))
                 /\ \A t1, t2 \in Thresholds :
                       t1 <= t2 =>
                           /\ fuzzy(t2) \subseteq fuzzy(t1)
                           /\ flagged(t2) \subseteq flagged(t1)
                           /\ Cardinality(fuzzy(t2)) <= Cardinality(fuzzy(t1))
                           /\ Cardinality(flagged(t2)) <= Cardinality(flagged(t1))

C6_Witness ==
    /\ BroadAt({ "done" })
    /\ ~args.disable_fuzzy
    /\ args.fuzzy_threshold = 85
    /\ \E score \in { RowScores } :
           /\ \E i \in Rows : fuzzy_match[i] /\ score[i] >= 85 /\ ~(score[i] >= 100)
           /\ \E i \in Rows : ~fuzzy_match[i] /\ score[i] >= 0

\* C7: a record whose normalized text is empty is never fuzzy-matched, at any
\* threshold of the 0-100 scale.
C7_EmptyNeverFuzzy ==
    BroadAt({ "flag", "subset", "done" }) =>
        \A i \in Rows : text_norm_series[i] = "" => ~fuzzy_match[i]

EthicsAt(places) == script = "ethics_analysis" /\ pc \in places

\* C8: is_match is true exactly when a title pattern matches the title or a
\* description pattern matches the description; the default matcher of
\* ethics_filter agrees with the one of ethics_analysis; the title
\* "Introduction to Ethics" is matched whatever the description.
C8_EthicsMatch ==
    EthicsAt({ "subset", "done" }) =>
        \A i \in Rows :
            LET title == df[i].title
                description == df[i].description
            IN  /\ flags[i] = \/ AnySearch(TITLE_PATTERNS, title)
                              \/ description # NaN /\ AnySearch(DESCRIPTION_PATTERNS, description)
                /\ flags[i] = FilterIsMatch(FilterBuild(TRUE), title, description)
                /\ title = "Introduction to Ethics" => flags[i]

C8_Witness ==
    /\ EthicsAt({ "done" })
    /\ \E i \in Rows : /\ ~flags[i]
                       /\ df[i].description # NaN
                       /\ AnySearch(TITLE_PATTERNS, df[i].description)
    /\ \E i \in Rows : flags[i] /\ ~AnySearch(TITLE_PATTERNS, df[i].title)
    /\ \E i \in Rows : flags[i] /\ df[i].title = "Introduction to Ethics"

\* the comma-separated fields of a reason string
Fields(s) ==
    LET starts == { i \in 1..Len(s) : Char(s, i) # "," /\ (i = 1 \/ Char(s, i - 1) = ",") }
        start(k) == CHOOSE i \in starts : Cardinality({ j \in starts : j < i }) = k - 1
        end(i) == CHOOSE j \in i..Len(s) :
                      /\ \A x \in i..j : Char(s, x) # ","
                      /\ (j = Len(s) \/ Char(s, j + 1) = ",")
    IN  [k \in 1..Cardinality(starts) |-> SubSeq(s, start(k), end(start(k)))]

\* the labels of the patterns that match t
MatchedLabels(t) ==
    UNION { { BROAD_PATTERNS[k].label :
                k \in { x \in 1..Len(BROAD_PATTERNS) :
                          SearchIn(BROAD_PATTERNS[x].alts, t, bounds) } } :
            bounds \in { Boundaries(t) } }

\* C9: the reason of a record lists the distinct labels of the patterns that
\* matched it, comma-joined in sorted order, no label twice; it is empty exactly
\* when no pattern matched, so a record flagged by fuzzy matching alone has an
\* empty reason.
C9_ReasonString ==
    BroadAt({ "fuzzy", "flag", "subset", "done" }) =>
        \A i \in Rows :
            LET fields == Fields(reasons[i])
            IN  /\ Range(fields) = MatchedLabels(text_norm_series[i])
                /\ \A k \in 1..(Len(fields) - 1) : StrLess(fields[k], fields[k + 1])
                /\ reasons[i] = join(",", fields)
                /\ (reasons[i] = "") = ~matched[i]
                /\ (pc \in { "subset", "done" } /\ flags[i] /\ ~matched[i]) => reasons[i] = ""

C9_Witness ==
    /\ BroadAt({ "done" })
    /\ \E i \in Rows : reasons[i] = "deep_learning,llm,machine_learning"
    /\ \E i \in Rows : flags[i] /\ ~matched[i] /\ reasons[i] = ""

\* C10: the subset written holds exactly one row for every (prefix, number) key
\* with a flagged input row and none for any other key; each of its rows is a
\* flagged input row; the rows ascend by (prefix, number).
C10_SubsetRows ==
    (script \in { "ai_analysis_broad", "ethics_analysis" } /\ pc = "done") =>
        LET out == out_file.rows
        IN  /\ out_file.exists
            /\ Keys(out) = { Key(df[i]) : i \in { x \in Rows : flags[x] } }
            /\ Len(out) = Cardinality(Keys(out))
            /\ \A k \in 1..Len(out) : \E i \in Rows : df[i] = out[k] /\ flags[i]
            /\ \A k \in 1..(Len(out) - 1) : KeyLess(out[k], out[k + 1])

C10_Witness ==
    /\ script \in { "ai_analysis_broad", "ethics_analysis" }
    /\ pc = "done"
    /\ Len(df) = 3
    /\ ~flags[1] /\ flags[2] /\ flags[3]
    /\ Key(df[1]) = Key(df[2])
    /\ KeyLess(df[3], df[2])
    /\ Len(out_file.rows) = 2

\* the record with its missing title and description set to ""
Filled(row) == [row EXCEPT !.title = fillna(@), !.description = fillna(@)]

\* C11: a missing title or description is read as the empty string by every
\* classifier: no run fails on such a record, ai_analysis_broad classifies the
\* text it would get from the record with "" in its place, and ethics_analysis
\* gives the record the flag of the record with "" in its place.
C11_NullAsEmpty ==
    /\ pc # "error"
    /\ BroadAt({ "rules", "fuzzy", "flag", "subset", "done" }) =>
           \A i \in Rows : text_norm_series[i] = TextNorm(Filled(df[i]))
    /\ EthicsAt({ "subset", "done" }) =>
           \A i \in Rows :
               flags[i] = is_match(AnalysisBuild, Filled(df[i]).title,
                                   Filled(df[i]).description)

\* the input named by --input-courses fails validation
InvalidInput == ~csv.exists \/ required_cols \ csv.columns # {}

\* no record has been classified and nothing has been written
NothingProcessed ==
    /\ text_norm_series = << >>
    /\ reasons = << >>
    /\ matched = << >>
    /\ fuzzy_match = << >>
    /\ flags = << >>
    /\ subset = << >>
    /\ ~out_file.exists

\* C12: a missing input file or a missing required column ends the run with a
\* message and a non-zero exit before any record is classified and without
\* an output file; a run whose input passed validation never fails later.
C12_ConfigErrorsUpFront ==
    script \in { "ai_analysis_broad", "ethics_analysis" } =>
        /\ InvalidInput => pc \in { "import", "start", "read", "exit1" } /\ NothingProcessed
        /\ (pc = "exit1" /\ thefuzz) =>
               /\ InvalidInput
               /\ stderr = IF csv.exists THEN "Missing required columns"
                                         ELSE "Course CSV not found"
        /\ pc \in { "compile", "rules", "fuzzy", "flag", "subset", "done" } => ~InvalidInput
        /\ pc # "error"

\* C14: with fuzzy matching requested and thefuzz not installed, the run ends
\* at the import guard: it prints how to install the library, exits non-zero,
\* classifies no record and writes no result, so no rules-only result appears.
C14_FuzzyUnavailableFatal ==
    (script = "ai_analysis_broad" /\ ~args.disable_fuzzy /\ ~thefuzz) =>
        /\ pc \in { "import", "exit1" }
        /\ pc = "exit1" =>
               stderr = "Missing dependency: thefuzz. Install with: pip install thefuzz[speedup]"
        /\ NothingProcessed

C14_Witness ==
    /\ script = "ai_analysis_broad"
    /\ ~args.disable_fuzzy
    /\ ~thefuzz
    /\ pc = "exit1"
    /\ csv.exists
    /\ Len(csv.rows) > 0
    /\ stderr # ""

\* what one record gets when it is evaluated alone, with freshly built matchers
Alone(row) ==
    CHOOSE r \in
        { [flag |-> CombineFlag(hits # << >>,
                                /\ ~args.disable_fuzzy
                                /\ MeetsThreshold(max_fuzzy_score(ratio, t, fuzzy_phrases),
                                                  args.fuzzy_threshold)),
           reason |-> ReasonOf(hits),
           ethics |-> FilterIsMatch(FilterBuild(TRUE), fillna(row.title),
                                    fillna(row.description))] :
            hits \in { Hits(TextNorm(row)) }, t \in { TextNorm(row) } } : TRUE

LinksOver == pc \in { "returned", "raised" }

LinksSafe ==
    script = "get_course_links" =>
        /\ loads <= (IF retries < 0 THEN 0 ELSE retries + 1)
        /\ pc \in { "wait", "found" } => loads = attempt + 1 /\ attempt <= retries
        /\ pc = "found" => ~TimesOut(page)
        /\ pc = "returned" =>
               IF loads = 0 THEN retries < 0 /\ returned = << >>
               ELSE /\ loads = attempt + 1
                    /\ IF TimesOut(page) THEN attempt = retries /\ returned = << >>
                       ELSE IF page.no_courses THEN returned = << >>
                       ELSE /\ \A k \in 1..(Len(returned) - 1) :
                                   StrLess(returned[k], returned[k + 1])
                            /\ Range(returned) =
                                   { Absolute(h) : h \in Range(page.hrefs) \ { None, "" } }

\* C15: get_course_links ends, after at most retries+1 loads of the results
\* page: every load but the last timed out; after the last allowed time-out it
\* returns []; the first load that does not time out is the last one, and the
\* call returns [] when "No courses found" is shown and otherwise the course
\* links sorted and without duplicates; nothing is loaded once it is over.
C15_LinksTerminate ==
    /\ []LinksSafe
    /\ [][LinksOver => loads' = loads]_vars
    /\ <>LinksOver

C15_Witness ==
    /\ script = "get_course_links"
    /\ pc = "returned"
    /\ retries = 2
    /\ loads = 3
    /\ ~page.no_courses
    /\ Len(page.hrefs) = 2
    /\ Len(returned) = 2
    /\ returned[1] = BASE \o "/" \o page.hrefs[2]

\* every row of dict a is in dict b, unchanged
KeepsRows(a, b) == \A u \in DOMAIN a : u \in DOMAIN b /\ b[u] = a[u]

\* a step of a run without --overwrite keeps every stored row, in memory and
\* in the file, and scrapes no url that has a stored row
NoOverwriteStep ==
    (script = "scrape" /\ ~OVERWRITE) =>
        /\ KeepsRows(existing, existing')
        /\ courses_csv.exists =>
               courses_csv'.exists /\ KeepsRows(courses_csv.rows, courses_csv'.rows)
        /\ (scraped' \ scraped) \cap DOMAIN existing = {}

\* a step in which scraping a course fails changes no row and goes on with the
\* next link, or with write_csv after the last link
FailedScrapeStep ==
    (script = "scrape" /\ failed' # failed) =>
        /\ existing' = existing
        /\ courses_csv' = courses_csv
        /\ pc' = IF link_i < Len(links) THEN "link" ELSE "write"
        /\ link_i' = link_i + 1
        /\ << term_i', prefix_i', links' >> = << term_i, prefix_i, links >>

\* the driver is open exactly inside the try block; a run that printed
\* "Finished." went through every prefix of every term
DriverQuit ==
    script = "scrape" =>
        /\ pc \in { "finished", "crashed" } => driver # "open"
        /\ pc \in { "fetch", "link", "write", "finally", "finally_raise" } => driver = "open"
        /\ pc = "finished" =>
               /\ driver = "quit"
               /\ term_i = Len(TERM_CODES)
               /\ prefix_i = Len(PREFIXES)

\* C16: without --overwrite a url that has a stored row is never scraped and no
\* stored row is changed or dropped, so the stored urls only grow; a failed
\* scrape changes no row and the loops go on; the driver is quit on every way
\* out of the try block.
C16_StoredRowsKept ==
    /\ [][NoOverwriteStep]_vars
    /\ [][FailedScrapeStep]_vars
    /\ []DriverQuit

C16_Witness ==
    /\ script = "scrape"
    /\ ~OVERWRITE
    /\ pc = "link"
    /\ term_i = 2
    /\ link_i = 2
    /\ links[1] \in DOMAIN existing \ scraped
    /\ existing[links[1]] = StoredRows(CourseUrls)[links[1]]
    /\ courses_csv.rows = existing
    /\ failed = { links[2] }
    /\ links[2] \notin DOMAIN existing

====
